---------------------------- MODULE Spec2Model ----------------------------
(***************************************************************************)
(* Radio-navigation simulations of spailll/ILS_sims: DME.py (time-of-      *)
(* flight ranging and its ping scheduler), glideslope.py and localizer.py  *)
(* (dual-lobe deviation), VOR.py (phase-difference azimuth decoding).      *)
(*                                                                         *)
(* Python floats are modelled as binary floating-point numbers <<m, e>>    *)
(* (value m * 2^e) with a PREC-bit significand and round-to-nearest-even,  *)
(* the arithmetic of IEEE-754 doubles at a reduced significand width       *)
(* (PREC instead of 53 bits); exponent range is not limited.               *)
(***************************************************************************)
EXTENDS Integers, Sequences, FiniteSets

(***************************************************************************)
(* Bounds of the model.                                                    *)
(***************************************************************************)
\* significand width of the modelled floats (53 in CPython)
PREC == 12
\* clock resolution: model time units per second
UnitsPerSecond == 1
\* the clock stops advancing after this many seconds
MaxSeconds == 10
\* the largest time, in seconds, one frame may take
MaxFrameSeconds == 7

(***************************************************************************)
(* Floating-point arithmetic.                                              *)
(***************************************************************************)
Abs(n) == IF n < 0 THEN -n ELSE n

Sign(n) == IF n < 0 THEN -1 ELSE IF n = 0 THEN 0 ELSE 1

Max(a, b) == IF a >= b THEN a ELSE b

Min(a, b) == IF a <= b THEN a ELSE b

Pow2(n) == IF n <= 0 THEN 1 ELSE 2 ^ n

\* int.bit_length() of a non-negative integer below 2^31
BitLen(n) ==
  IF n >= 2 ^ 30 THEN 31
  ELSE CHOOSE k \in 0..30 : n < 2 ^ k /\ (k = 0 \/ n >= 2 ^ (k - 1))

RECURSIVE ISqrt(_)
ISqrt(n) ==
  IF n < 2 THEN n
  ELSE LET s == 2 * ISqrt(n \div 4)
       IN  IF (s + 1) * (s + 1) <= n THEN s + 1 ELSE s

FZero == <<0, 0>>

\* The float nearest to m * 2^e (ties to even); sticky says that the exact
\* value lies strictly beyond m * 2^e, away from zero, by less than 2^e.
Round(m, e, sticky) ==
  LET a == Abs(m)
      n == BitLen(a)
  IN  IF a = 0 THEN FZero
      ELSE IF n <= PREC
      THEN <<Sign(m) * a * Pow2(PREC - n), e - (PREC - n)>>
      ELSE LET k    == n - PREC
               q    == a \div Pow2(k)
               r    == a % Pow2(k)
               half == Pow2(k - 1)
               up   == r > half \/ (r = half /\ (sticky \/ q % 2 = 1))
               q2   == IF up THEN q + 1 ELSE q
           IN  IF q2 = Pow2(PREC)
               THEN <<Sign(m) * Pow2(PREC - 1), e + k + 1>>
               ELSE <<Sign(m) * q2, e + k>>

FromInt(n) == Round(n, 0, FALSE)

FNeg(a) == <<-a[1], a[2]>>

FAbs(a) == <<Abs(a[1]), a[2]>>

\* a + b, rounded.  When the exponents are too far apart for the exact sum
\* to be formed, the smaller operand only decides the rounding direction.
FAdd(a, b) ==
  IF a[1] = 0 THEN b
  ELSE IF b[1] = 0 THEN a
  ELSE LET big   == IF a[2] >= b[2] THEN a ELSE b
           small == IF a[2] >= b[2] THEN b ELSE a
           d     == big[2] - small[2]
       IN  IF d <= PREC + 2
           THEN Round(big[1] * Pow2(d) + small[1], small[2], FALSE)
           ELSE IF Sign(big[1]) = Sign(small[1])
                THEN Round(4 * big[1], big[2] - 2, TRUE)
                ELSE Round(4 * big[1] - Sign(big[1]), big[2] - 2, TRUE)

FSub(a, b) == FAdd(a, FNeg(b))

FMul(a, b) == Round(a[1] * b[1], a[2] + b[2], FALSE)

\* a / b, rounded; b is not zero.
FDiv(a, b) ==
  LET n == Abs(a[1]) * Pow2(PREC + 2)
      q == n \div Abs(b[1])
      r == n % Abs(b[1])
  IN  Round(Sign(a[1]) * Sign(b[1]) * q, a[2] - b[2] - (PREC + 2), r # 0)

\* <<floor(n * 2^bits / d), remainder>>, by long division (n >= 0, d > 0)
RECURSIVE LongDiv(_, _, _)
LongDiv(n, d, bits) ==
  IF bits = 0 THEN <<n \div d, n % d>>
  ELSE LET p == LongDiv(n, d, bits - 1)
       IN  <<2 * p[1] + (2 * p[2]) \div d, (2 * p[2]) % d>>

\* The float nearest to the rational n / d (n >= 0, d > 0), used for the
\* decimal literals of the source.
FromRat(n, d) ==
  LET k == PREC + 2 + Max(0, BitLen(d) - BitLen(n) + 1)
      p == LongDiv(n, d, k)
  IN  Round(p[1], -k, p[2] # 0)

FSign(a) == Sign(a[1])

FLt(a, b) == FSign(FSub(a, b)) < 0

FLe(a, b) == FSign(FSub(a, b)) <= 0

\* The spacing of the floats at the magnitude of a, as a power of two:
\* one unit in the last place of a is 2^UlpExp(a).
UlpExp(a) == a[2]

\* math.hypot on whole-number arguments: sqrt(a^2 + b^2), rounded.
Hypot(a, b) ==
  LET n == a * a + b * b
      t == Max(0, (2 * PREC + 2 - BitLen(n)) \div 2)
      s == n * Pow2(2 * t)
      q == ISqrt(s)
  IN  IF n = 0 THEN FZero ELSE Round(q, -t, q * q # s)


(***************************************************************************)
(* math.tanh: tanh(x) = (1 - E) / (1 + E) with E = exp(-2|x|), computed in  *)
(* fixed point with ExpBits fractional bits and rounded to a float.  The    *)
(* function is odd, and it rounds to exactly 1.0 once 2E is below half a    *)
(* unit in the last place of 1.0.                                           *)
(***************************************************************************)
ExpBits == 28
ExpTerms == 14
\* ln 2 in fixed point with 24 fractional bits
Ln2Fix == 11629080

ExpOne == Pow2(ExpBits)

\* a * b for fixed-point a, b <= 1, formed from half-width products
MulFix(a, b) ==
  LET h  == Pow2(ExpBits \div 2)
      ah == a \div h
      al == a % h
      bh == b \div h
      bl == b % h
  IN  ah * bh + (ah * bl + al * bh) \div h + (al * bl) \div ExpOne

\* exp(-r) for 0 <= r < ln 2: the Taylor series in Horner form
RECURSIVE ExpNegSeries(_, _, _)
ExpNegSeries(r, n, h) ==
  IF n = 0 THEN h ELSE ExpNegSeries(r, n - 1, ExpOne - MulFix(r, h) \div n)

\* floor(a * 2^bits) for a float a >= 0
FixOf(a, bits) ==
  IF a[2] + bits >= 0 THEN a[1] * Pow2(a[2] + bits)
  ELSE a[1] \div Pow2(-(a[2] + bits))

FOne == FromInt(1)

FHalf == FromRat(1, 2)

FTanh(x) ==
  LET y == <<Abs(x[1]), x[2] + 1>>
  IN  IF x[1] = 0 THEN FZero
      ELSE IF y[2] + PREC >= 5 THEN <<Sign(x[1]) * FOne[1], FOne[2]>>
      ELSE IF y[2] + PREC <= -10 THEN x
      ELSE LET y24 == FixOf(y, 24)
               k   == y24 \div Ln2Fix
               r   == IF k = 0 THEN FixOf(y, ExpBits)
                      ELSE (y24 % Ln2Fix) * Pow2(ExpBits - 24)
               E   == ExpNegSeries(r, ExpTerms, ExpOne) \div Pow2(k)
               num == ExpOne - E
               den == ExpOne + E
               b   == PREC + 2 + Max(0, BitLen(den) - BitLen(num) + 1)
               p   == LongDiv(num, den, b)
               t   == Round(p[1], -b, p[2] # 0)
           IN  <<Sign(x[1]) * t[1], t[2]>>

(***************************************************************************)
(* DME.py: constants and state.                                            *)
(***************************************************************************)
WIDTH == 800
HEIGHT == 600
DME_X == 600
DME_Y == 300
PLANE_SIZE == 20

MICROSECS_PER_MILE_ROUNDTRIP == FromRat(537, 100)

DME_REPLY_DELAY_US == FromInt(50)

\* PING_INTERVAL = 3.0 seconds, in clock units
PING_INTERVAL == 3 * UnitsPerSecond

MaxTime == MaxSeconds * UnitsPerSecond

MaxFrame == MaxFrameSeconds * UnitsPerSecond

\* positions (event.pos) the mouse events of the model carry
MousePositions == {<<210, 210>>, <<610, 310>>, <<0, 0>>, <<799, 599>>}

VARIABLES
  pc,                      \* where the main loop of DME.py stands
  current_time,            \* time.time() - start_time, in clock units
  plane_x, plane_y, dragging,
  last_measured_distance, last_ping_time, time_of_next_ping,
  actual_dist, time_to_ping,
  pings,                   \* history: number of measurements performed
  steady                   \* history: every frame so far took less than PING_INTERVAL

dmeVars == <<pc, current_time, plane_x, plane_y, dragging, last_measured_distance,
             last_ping_time, time_of_next_ping, actual_dist, time_to_ping, pings, steady>>

VARIABLES
  meas_pc, meas_d, meas_P, meas_out   \* one call of the ranging measurement

measVars == <<meas_pc, meas_d, meas_P, meas_out>>

(***************************************************************************)
(* DME.py: helper functions.                                               *)
(***************************************************************************)
actual_distance_miles(px, py, dx, dy) == Hypot(px - dx, py - dy)

ideal_rtt(d) == FMul(FMul(FromInt(2), d), MICROSECS_PER_MILE_ROUNDTRIP)

total_rtt(d, P) == FAdd(ideal_rtt(d), P)

plane_time_NoSubtract(d, P) == total_rtt(d, P)

plane_time(d, P) == FSub(total_rtt(d, P), P)

\* lines 58-66 with the reply delay as a parameter
measure(d, P) ==
  FDiv(plane_time(d, P), FMul(FromInt(2), MICROSECS_PER_MILE_ROUNDTRIP))

dme_measure_distance(px, py, dx, dy) ==
  measure(actual_distance_miles(px, py, dx, dy), DME_REPLY_DELAY_US)

(***************************************************************************)
(* DME.py: the main loop, one action per step of an iteration.             *)
(***************************************************************************)
DMEInit ==
  /\ pc = "tick"
  /\ current_time = 0
  /\ plane_x = 200
  /\ plane_y = 200
  /\ dragging = FALSE
  /\ last_measured_distance = FZero
  /\ last_ping_time = 0
  /\ time_of_next_ping = PING_INTERVAL
  /\ actual_dist = FZero
  /\ time_to_ping = 0
  /\ pings = 0
  /\ steady = TRUE

\* lines 74-75: the frame's clock reading
Tick ==
  /\ pc = "tick"
  /\ \E j \in 1..MaxFrame :
       /\ current_time + j <= MaxTime
       /\ current_time' = current_time + j
       /\ steady' = (steady /\ j < PING_INTERVAL)
  /\ pc' = "events"
  /\ UNCHANGED <<plane_x, plane_y, dragging, last_measured_distance, last_ping_time,
                 time_of_next_ping, actual_dist, time_to_ping, pings>>

collidepoint(rx, ry, mx, my) ==
  /\ rx <= mx /\ mx < rx + PLANE_SIZE
  /\ ry <= my /\ my < ry + PLANE_SIZE

\* lines 79-81
Quit ==
  /\ pc = "events"
  /\ pc' = "quit"
  /\ UNCHANGED <<current_time, plane_x, plane_y, dragging, last_measured_distance,
                 last_ping_time, time_of_next_ping, actual_dist, time_to_ping, pings, steady>>

\* lines 82-86
MouseButtonDown ==
  /\ pc = "events"
  /\ \E pos \in MousePositions :
       dragging' = (dragging \/ collidepoint(plane_x, plane_y, pos[1], pos[2]))
  /\ UNCHANGED <<pc, current_time, plane_x, plane_y, last_measured_distance,
                 last_ping_time, time_of_next_ping, actual_dist, time_to_ping, pings, steady>>

\* lines 87-88
MouseButtonUp ==
  /\ pc = "events"
  /\ dragging' = FALSE
  /\ UNCHANGED <<pc, current_time, plane_x, plane_y, last_measured_distance,
                 last_ping_time, time_of_next_ping, actual_dist, time_to_ping, pings, steady>>

\* lines 89-92
MouseMotion ==
  /\ pc = "events"
  /\ dragging
  /\ \E pos \in MousePositions :
       /\ plane_x' = pos[1] - PLANE_SIZE \div 2
       /\ plane_y' = pos[2] - PLANE_SIZE \div 2
  /\ UNCHANGED <<pc, current_time, dragging, last_measured_distance,
                 last_ping_time, time_of_next_ping, actual_dist, time_to_ping, pings, steady>>

\* lines 94-96, reached when the event queue is drained
Constrain ==
  /\ pc = "events"
  /\ plane_x' = Max(0, Min(WIDTH - PLANE_SIZE, plane_x))
  /\ plane_y' = Max(0, Min(HEIGHT - PLANE_SIZE, plane_y))
  /\ pc' = "ping"
  /\ UNCHANGED <<current_time, dragging, last_measured_distance,
                 last_ping_time, time_of_next_ping, actual_dist, time_to_ping, pings, steady>>

TimeToPing_Strict(now, next) == now > next

\* line 99
TimeToPing(now, next) == now >= next

NextPing_Resync(now, next) == now + PING_INTERVAL

\* line 103
NextPing(now, next) == next + PING_INTERVAL

PingCheck_Always ==
  /\ pc = "ping"
  /\ last_measured_distance' = dme_measure_distance(plane_x, plane_y, DME_X, DME_Y)
  /\ IF TimeToPing(current_time, time_of_next_ping)
     THEN /\ last_ping_time' = current_time
          /\ time_of_next_ping' = NextPing(current_time, time_of_next_ping)
          /\ pings' = pings + 1
     ELSE UNCHANGED <<last_ping_time, time_of_next_ping, pings>>
  /\ pc' = "draw"
  /\ UNCHANGED <<current_time, plane_x, plane_y, dragging, actual_dist, time_to_ping, steady>>

\* lines 98-103
PingCheck ==
  /\ pc = "ping"
  /\ IF TimeToPing(current_time, time_of_next_ping)
     THEN /\ last_measured_distance' = dme_measure_distance(plane_x, plane_y, DME_X, DME_Y)
          /\ last_ping_time' = current_time
          /\ time_of_next_ping' = NextPing(current_time, time_of_next_ping)
          /\ pings' = pings + 1
     ELSE UNCHANGED <<last_measured_distance, last_ping_time, time_of_next_ping, pings>>
  /\ pc' = "draw"
  /\ UNCHANGED <<current_time, plane_x, plane_y, dragging, actual_dist, time_to_ping, steady>>

\* lines 108-140: the values the frame displays
Draw ==
  /\ pc = "draw"
  /\ actual_dist' = actual_distance_miles(plane_x + PLANE_SIZE \div 2,
                                          plane_y + PLANE_SIZE \div 2, DME_X, DME_Y)
  /\ time_to_ping' = Max(0, time_of_next_ping - current_time)
  /\ pc' = "tick"
  /\ UNCHANGED <<current_time, plane_x, plane_y, dragging, last_measured_distance,
                 last_ping_time, time_of_next_ping, pings, steady>>

DMENext ==
  \/ Tick
  \/ Quit
  \/ MouseButtonDown
  \/ MouseButtonUp
  \/ MouseMotion
  \/ Constrain
  \/ PingCheck
  \/ Draw

(***************************************************************************)
(* The ranging measurement as a function of the distance and the delay.    *)
(***************************************************************************)
MeasureDistances ==
  {Hypot(a, b) : a \in {0, 1, 3, 100, 400, 600}, b \in {0, 1, 2, 300}}

MeasureDelays == {FZero, FromInt(50), FromInt(7), FromInt(1000), FromRat(1, 3)}

MeasInit ==
  /\ meas_pc = "call"
  /\ meas_d \in MeasureDistances
  /\ meas_P \in MeasureDelays
  /\ meas_out = FZero

MeasIdle ==
  /\ meas_pc = "idle"
  /\ meas_d = FZero
  /\ meas_P = FZero
  /\ meas_out = FZero

Measure ==
  /\ meas_pc = "call"
  /\ meas_out' = measure(meas_d, meas_P)
  /\ meas_pc' = "done"
  /\ UNCHANGED <<meas_d, meas_P>>

DMEIdle ==
  /\ pc = "off"
  /\ current_time = 0
  /\ plane_x = 0
  /\ plane_y = 0
  /\ dragging = FALSE
  /\ last_measured_distance = FZero
  /\ last_ping_time = 0
  /\ time_of_next_ping = 0
  /\ actual_dist = FZero
  /\ time_to_ping = 0
  /\ pings = 0
  /\ steady = TRUE

(***************************************************************************)
(* glideslope.py: constants, geometry and the lobe strengths.              *)
(***************************************************************************)
GS_WIDTH == 800
GS_HEIGHT == 600
GS_RUNWAY_X == 700
GS_RUNWAY_Y == 500
GS_START_PLANE_X == 100
GS_DIAL_CENTER_Y == 100
GS_needle_max == 30
GS_TRANSITION_SCALE == FromInt(20)

\* math.tan(ANGLE_MIDDLE), math.tan(ANGLE_TOP): tan 9 degrees, tan 15 degrees
TanAngleMiddle == FromRat(749, 4729)

TanAngleTop == FromRat(2911, 10864)

line_y(x, tanAngle) ==
  FSub(FromInt(GS_RUNWAY_Y), FMul(tanAngle, FromInt(GS_RUNWAY_X - x)))

y_top_line(x) == line_y(x, TanAngleTop)

y_middle_line(x) == line_y(x, TanAngleMiddle)

\* dist = py - y_ideal (lines 67-68 and 78-79)
dist_from_middle(px, py) == FSub(py, y_middle_line(px))

\* the 90 Hz lobe without its 0.5 offset
signal_strength_90hz_NoOffset(px, py, scale) ==
  FMul(FHalf, FTanh(FDiv(FNeg(dist_from_middle(px, py)), scale)))

\* lines 62-71
signal_strength_90hz(px, py, scale) ==
  FAdd(FHalf, FMul(FHalf, FTanh(FDiv(FNeg(dist_from_middle(px, py)), scale))))

signal_strength_150hz_SignSlip(px, py, scale) ==
  FAdd(FHalf, FMul(FHalf, FTanh(FDiv(FNeg(dist_from_middle(px, py)), scale))))

signal_strength_150hz(px, py, scale) ==
  FAdd(FHalf, FMul(FHalf, FTanh(FDiv(dist_from_middle(px, py), scale))))

glideslope_diff_Swapped(px, py, scale) ==
  FSub(signal_strength_150hz(px, py, scale), signal_strength_90hz(px, py, scale))

glideslope_diff(px, py, scale) ==
  FSub(signal_strength_90hz(px, py, scale), signal_strength_150hz(px, py, scale))

FMin(a, b) == IF FLt(b, a) THEN b ELSE a

FMax(a, b) == IF FLt(a, b) THEN b ELSE a

\* d = max(-1.0, min(1.0, diff))
ClampDiff(diff) == FMax(FNeg(FOne), FMin(FOne, diff))

\* the whole number a non-negative float is truncated to (pygame.Rect)
TruncInt(a) ==
  IF a[2] >= 0 THEN a[1] * Pow2(a[2]) ELSE a[1] \div Pow2(-a[2])

\* positions (event.pos) the mouse events of the model carry
GSMousePositions ==
  {<<110, 405>>, <<700, 500>>, <<0, 0>>, <<799, 599>>, <<400, 455>>, <<400, 440>>,
   <<400, 300>>}

VARIABLES
  gs_pc,                   \* where the main loop of glideslope.py stands
  gs_scale,                \* TRANSITION_SCALE
  gs_plane_x, gs_plane_y, gs_dragging,
  gs_dist, gs_s90, gs_s150, gs_diff,   \* the frame's offset, lobe strengths, deviation
  gs_d, gs_ny,             \* the dial's clamped deviation and needle position
  gs_frames,               \* history: frames drawn so far (0, 1, 2 or more)
  gs_prev_dist, gs_prev_diff           \* history: the previous frame's offset and deviation

gsVars == <<gs_pc, gs_scale, gs_plane_x, gs_plane_y, gs_dragging, gs_dist, gs_s90,
            gs_s150, gs_diff, gs_d, gs_ny, gs_frames, gs_prev_dist, gs_prev_diff>>

GSInitWith(scale) ==
  /\ gs_pc = "events"
  /\ gs_scale = scale
  /\ gs_plane_x = GS_START_PLANE_X
  /\ gs_plane_y = FSub(y_middle_line(GS_START_PLANE_X), FromInt(PLANE_SIZE \div 2))
  /\ gs_dragging = FALSE
  /\ gs_dist = FZero /\ gs_s90 = FZero /\ gs_s150 = FZero /\ gs_diff = FZero
  /\ gs_d = FZero /\ gs_ny = FZero
  /\ gs_frames = 0
  /\ gs_prev_dist = FZero /\ gs_prev_diff = FZero

GSIdle ==
  /\ gs_pc = "off"
  /\ gs_scale = FZero
  /\ gs_plane_x = 0
  /\ gs_plane_y = FZero
  /\ gs_dragging = FALSE
  /\ gs_dist = FZero /\ gs_s90 = FZero /\ gs_s150 = FZero /\ gs_diff = FZero
  /\ gs_d = FZero /\ gs_ny = FZero
  /\ gs_frames = 0
  /\ gs_prev_dist = FZero /\ gs_prev_diff = FZero

\* lines 175-177
GS_Quit ==
  /\ gs_pc = "events"
  /\ gs_pc' = "quit"
  /\ UNCHANGED <<gs_scale, gs_plane_x, gs_plane_y, gs_dragging, gs_dist, gs_s90, gs_s150,
                 gs_diff, gs_d, gs_ny, gs_frames, gs_prev_dist, gs_prev_diff>>

\* lines 178-181
GS_MouseButtonDown ==
  /\ gs_pc = "events"
  /\ \E pos \in GSMousePositions :
       gs_dragging' = (gs_dragging \/
                       collidepoint(gs_plane_x, TruncInt(gs_plane_y), pos[1], pos[2]))
  /\ UNCHANGED <<gs_pc, gs_scale, gs_plane_x, gs_plane_y, gs_dist, gs_s90, gs_s150,
                 gs_diff, gs_d, gs_ny, gs_frames, gs_prev_dist, gs_prev_diff>>

\* lines 182-183
GS_MouseButtonUp ==
  /\ gs_pc = "events"
  /\ gs_dragging' = FALSE
  /\ UNCHANGED <<gs_pc, gs_scale, gs_plane_x, gs_plane_y, gs_dist, gs_s90, gs_s150,
                 gs_diff, gs_d, gs_ny, gs_frames, gs_prev_dist, gs_prev_diff>>

\* lines 184-187
GS_MouseMotion ==
  /\ gs_pc = "events"
  /\ gs_dragging
  /\ \E pos \in GSMousePositions :
       /\ gs_plane_x' = pos[1] - PLANE_SIZE \div 2
       /\ gs_plane_y' = FromInt(pos[2] - PLANE_SIZE \div 2)
  /\ UNCHANGED <<gs_pc, gs_scale, gs_dragging, gs_dist, gs_s90, gs_s150,
                 gs_diff, gs_d, gs_ny, gs_frames, gs_prev_dist, gs_prev_diff>>

\* lines 189-191, reached when the event queue is drained
GS_Bound ==
  /\ gs_pc = "events"
  /\ gs_plane_x' = Max(0, Min(GS_WIDTH - PLANE_SIZE, gs_plane_x))
  /\ gs_plane_y' = FMax(FZero, FMin(FromInt(GS_HEIGHT - PLANE_SIZE), gs_plane_y))
  /\ gs_pc' = "draw"
  /\ UNCHANGED <<gs_scale, gs_dragging, gs_dist, gs_s90, gs_s150,
                 gs_diff, gs_d, gs_ny, gs_frames, gs_prev_dist, gs_prev_diff>>

\* lines 193-205: draw_background evaluates the lobe strengths (a division by
\* TRANSITION_SCALE) before anything else; then the deviation drives the dial.
GS_Draw ==
  /\ gs_pc = "draw"
  /\ IF gs_scale = FZero
     THEN /\ gs_pc' = "ZeroDivisionError"
          /\ UNCHANGED <<gs_dist, gs_s90, gs_s150, gs_diff, gs_d, gs_ny, gs_frames,
                         gs_prev_dist, gs_prev_diff>>
     ELSE LET px   == gs_plane_x + PLANE_SIZE \div 2
              py   == FAdd(gs_plane_y, FromInt(PLANE_SIZE \div 2))
              diff == glideslope_diff(px, py, gs_scale)
              d    == ClampDiff(diff)
          IN  /\ gs_dist' = dist_from_middle(px, py)
              /\ gs_s90' = signal_strength_90hz(px, py, gs_scale)
              /\ gs_s150' = signal_strength_150hz(px, py, gs_scale)
              /\ gs_diff' = diff
              /\ gs_d' = d
              /\ gs_ny' = FAdd(FromInt(GS_DIAL_CENTER_Y),
                               FMul(FNeg(d), FromInt(GS_needle_max)))
              /\ gs_frames' = Min(2, gs_frames + 1)
              /\ gs_prev_dist' = gs_dist
              /\ gs_prev_diff' = gs_diff
              /\ gs_pc' = "events"
  /\ UNCHANGED <<gs_scale, gs_plane_x, gs_plane_y, gs_dragging>>

GSNext ==
  \/ GS_Quit
  \/ GS_MouseButtonDown
  \/ GS_MouseButtonUp
  \/ GS_MouseMotion
  \/ GS_Bound
  \/ GS_Draw

(***************************************************************************)
(* localizer.py: constants, geometry and the lobe strengths.               *)
(***************************************************************************)
LOC_WIDTH == 800
LOC_HEIGHT == 800
LOC_RUNWAY_X == 400
LOC_RUNWAY_Y == 100
LOC_START_PLANE_Y == 600
LOC_DIAL_CENTER_X == 150
LOC_needle_max == 30
LOC_TRANSITION_SCALE == FromInt(20)

\* math.tan(ANGLE_CENTER): tan 0
TanAngleCenter == FZero

localizer_x(y, tanAngle) ==
  FSub(FromInt(LOC_RUNWAY_X), FMul(tanAngle, FromInt(LOC_RUNWAY_Y - y)))

x_center_line(y) == localizer_x(y, TanAngleCenter)

\* dist = px - center_x (lines 82-83 and 94-95)
dist_from_center(px, py) == FSub(FromInt(px), x_center_line(py))

localizer_90_strength(px, py, scale) ==
  FAdd(FHalf, FMul(FHalf, FTanh(FDiv(FNeg(dist_from_center(px, py)), scale))))

localizer_150_strength(px, py, scale) ==
  FAdd(FHalf, FMul(FHalf, FTanh(FDiv(dist_from_center(px, py), scale))))

localizer_diff_Swapped(px, py, scale) ==
  FSub(localizer_150_strength(px, py, scale), localizer_90_strength(px, py, scale))

localizer_diff(px, py, scale) ==
  FSub(localizer_90_strength(px, py, scale), localizer_150_strength(px, py, scale))

\* positions (event.pos) the mouse events of the model carry
LOCMousePositions ==
  {<<400, 610>>, <<0, 0>>, <<799, 799>>, <<405, 300>>, <<380, 500>>, <<460, 300>>,
   <<500, 300>>}

VARIABLES
  loc_pc,                  \* where the main loop of localizer.py stands
  loc_scale,               \* TRANSITION_SCALE
  loc_plane_x, loc_plane_y, loc_dragging,
  loc_dist, loc_s90, loc_s150, loc_diff,   \* the frame's offset, lobe strengths, deviation
  loc_d, loc_nx,           \* the dial's clamped deviation and needle position
  loc_frames,              \* history: frames drawn so far (0, 1, 2 or more)
  loc_prev_dist, loc_prev_diff             \* history: the previous frame's offset and deviation

locVars == <<loc_pc, loc_scale, loc_plane_x, loc_plane_y, loc_dragging, loc_dist, loc_s90,
             loc_s150, loc_diff, loc_d, loc_nx, loc_frames, loc_prev_dist, loc_prev_diff>>

LOCInitWith(scale) ==
  /\ loc_pc = "events"
  /\ loc_scale = scale
  /\ loc_plane_x = 400 - PLANE_SIZE \div 2
  /\ loc_plane_y = LOC_START_PLANE_Y
  /\ loc_dragging = FALSE
  /\ loc_dist = FZero /\ loc_s90 = FZero /\ loc_s150 = FZero /\ loc_diff = FZero
  /\ loc_d = FZero /\ loc_nx = FZero
  /\ loc_frames = 0
  /\ loc_prev_dist = FZero /\ loc_prev_diff = FZero

LOCIdle ==
  /\ loc_pc = "off"
  /\ loc_scale = FZero
  /\ loc_plane_x = 0
  /\ loc_plane_y = 0
  /\ loc_dragging = FALSE
  /\ loc_dist = FZero /\ loc_s90 = FZero /\ loc_s150 = FZero /\ loc_diff = FZero
  /\ loc_d = FZero /\ loc_nx = FZero
  /\ loc_frames = 0
  /\ loc_prev_dist = FZero /\ loc_prev_diff = FZero

\* lines 197-199
LOC_Quit ==
  /\ loc_pc = "events"
  /\ loc_pc' = "quit"
  /\ UNCHANGED <<loc_scale, loc_plane_x, loc_plane_y, loc_dragging, loc_dist, loc_s90,
                 loc_s150, loc_diff, loc_d, loc_nx, loc_frames, loc_prev_dist, loc_prev_diff>>

\* lines 200-204
LOC_MouseButtonDown ==
  /\ loc_pc = "events"
  /\ \E pos \in LOCMousePositions :
       loc_dragging' = (loc_dragging \/
                        collidepoint(loc_plane_x, loc_plane_y, pos[1], pos[2]))
  /\ UNCHANGED <<loc_pc, loc_scale, loc_plane_x, loc_plane_y, loc_dist, loc_s90, loc_s150,
                 loc_diff, loc_d, loc_nx, loc_frames, loc_prev_dist, loc_prev_diff>>

\* lines 205-206
LOC_MouseButtonUp ==
  /\ loc_pc = "events"
  /\ loc_dragging' = FALSE
  /\ UNCHANGED <<loc_pc, loc_scale, loc_plane_x, loc_plane_y, loc_dist, loc_s90, loc_s150,
                 loc_diff, loc_d, loc_nx, loc_frames, loc_prev_dist, loc_prev_diff>>

\* lines 207-210
LOC_MouseMotion ==
  /\ loc_pc = "events"
  /\ loc_dragging
  /\ \E pos \in LOCMousePositions :
       /\ loc_plane_x' = pos[1] - PLANE_SIZE \div 2
       /\ loc_plane_y' = pos[2] - PLANE_SIZE \div 2
  /\ UNCHANGED <<loc_pc, loc_scale, loc_dragging, loc_dist, loc_s90, loc_s150,
                 loc_diff, loc_d, loc_nx, loc_frames, loc_prev_dist, loc_prev_diff>>

\* lines 212-214, reached when the event queue is drained
LOC_Bound ==
  /\ loc_pc = "events"
  /\ loc_plane_x' = Max(0, Min(LOC_WIDTH - PLANE_SIZE, loc_plane_x))
  /\ loc_plane_y' = Max(0, Min(LOC_HEIGHT - PLANE_SIZE, loc_plane_y))
  /\ loc_pc' = "draw"
  /\ UNCHANGED <<loc_scale, loc_dragging, loc_dist, loc_s90, loc_s150,
                 loc_diff, loc_d, loc_nx, loc_frames, loc_prev_dist, loc_prev_diff>>

\* lines 216-232: draw_background_lobes evaluates the lobe strengths (a division
\* by TRANSITION_SCALE) before anything else; then the deviation drives the dial.
LOC_Draw ==
  /\ loc_pc = "draw"
  /\ IF loc_scale = FZero
     THEN /\ loc_pc' = "ZeroDivisionError"
          /\ UNCHANGED <<loc_dist, loc_s90, loc_s150, loc_diff, loc_d, loc_nx, loc_frames,
                         loc_prev_dist, loc_prev_diff>>
     ELSE LET px   == loc_plane_x + PLANE_SIZE \div 2
              py   == loc_plane_y + PLANE_SIZE \div 2
              diff == localizer_diff(px, py, loc_scale)
              d    == ClampDiff(diff)
          IN  /\ loc_dist' = dist_from_center(px, py)
              /\ loc_s90' = localizer_90_strength(px, py, loc_scale)
              /\ loc_s150' = localizer_150_strength(px, py, loc_scale)
              /\ loc_diff' = diff
              /\ loc_d' = d
              /\ loc_nx' = FAdd(FromInt(LOC_DIAL_CENTER_X),
                                FMul(d, FromInt(LOC_needle_max)))
              /\ loc_frames' = Min(2, loc_frames + 1)
              /\ loc_prev_dist' = loc_dist
              /\ loc_prev_diff' = loc_diff
              /\ loc_pc' = "events"
  /\ UNCHANGED <<loc_scale, loc_plane_x, loc_plane_y, loc_dragging>>

LOCNext ==
  \/ LOC_Quit
  \/ LOC_MouseButtonDown
  \/ LOC_MouseButtonUp
  \/ LOC_MouseMotion
  \/ LOC_Bound
  \/ LOC_Draw


(***************************************************************************)
(* VOR.py: two 30 Hz tones, the variable one shifted by the true azimuth;  *)
(* the azimuth is read back from the mean difference of their unwrapped    *)
(* instantaneous phases.  Phases of the sampled tones are counted in       *)
(* tenths of a degree, so that one sample (10.8 degrees of the tone) is a  *)
(* whole number; the mean and line 42 are computed in floats.              *)
(***************************************************************************)
fs == 1000
duration == 1
f_mod == 30

\* len(t): int(fs * duration) samples at i / fs, endpoint excluded
NumSamples == fs * duration

UnitsPerTurn == 360 * 10

HalfTurn == UnitsPerTurn \div 2

QuarterTurn == UnitsPerTurn \div 4

\* the values true_azimuth_deg is set to
Bearings == {0, 45, 90, 180, 270, 359}

\* the argument of the sine at sample i: 2 * pi * f_mod * t[i] + offset
signal_arg(i, offset) == (UnitsPerTurn * f_mod * i) \div fs + offset

\* an angle brought into (-pi, pi]
WrapAngle(a) ==
  LET r == a % UnitsPerTurn
  IN  IF r > HalfTurn THEN r - UnitsPerTurn ELSE r

\* np.angle(hilbert(sin(arg))): over a whole number of periods the analytic
\* signal of sin(arg) is sin(arg) - j cos(arg), whose angle is arg - pi/2;
\* where that is pi, the sign of the rounding error in the real part's
\* partner decides between pi and -pi.
analytic_angle(arg) ==
  LET w == WrapAngle(arg - QuarterTurn)
  IN  IF w = HalfTurn THEN {HalfTurn, -HalfTurn} ELSE {w}

\* np.unwrap without its correction
unwrap_correction_None(prev, cur) == 0

\* np.unwrap: what is added to all later samples after the step prev -> cur
unwrap_correction(prev, cur) ==
  LET dd     == cur - prev
      ddmod0 == ((dd + HalfTurn) % UnitsPerTurn) - HalfTurn
      ddmod  == IF ddmod0 = -HalfTurn /\ dd > 0 THEN HalfTurn ELSE ddmod0
  IN  IF Abs(dd) < HalfTurn THEN 0 ELSE ddmod - dd

\* pi
Pi == FromRat(355, 113)

\* np.mean(phase_diff), in radians: the sum of the differences over N samples
mean_radians(sum, n) ==
  LET h == FromRat(Abs(sum), n * HalfTurn)
  IN  FMul(<<Sign(sum) * h[1], h[2]>>, Pi)

\* np.rad2deg(x)
rad2deg(x) == FMul(x, FDiv(FromInt(180), Pi))

\* C fmod(a, n) for a whole number n > 0: exact, with the sign of a
fmod(a, n) ==
  IF FLt(FAbs(a), FromInt(n)) THEN a
  ELSE IF a[2] >= 0
       THEN FromInt(Sign(a[1]) * ((Abs(a[1]) * Pow2(a[2])) % n))
       ELSE Round(Sign(a[1]) * (Abs(a[1]) % (n * Pow2(-a[2]))), a[2], FALSE)

\* a % n on floats (n > 0): fmod, then n is added to a negative remainder
float_mod(a, n) ==
  LET r == fmod(a, n)
  IN  IF FSign(r) < 0 THEN FAdd(r, FromInt(n)) ELSE r

\* the values of mean_phase_diff line 42 is applied to on its own
MeanPhaseDiffs ==
  {Round(k, e, FALSE) : k \in -15..15, e \in {-20, -12, -6, -3, -1, 0, 1}}

VARIABLES
  vor_pc,                  \* where the script stands
  true_azimuth_deg,
  vor_i,                   \* samples of the two tones processed so far
  ref_angle, var_angle,    \* np.angle of the latest sample of each tone
  ref_corr, var_corr,      \* np.unwrap's accumulated correction of each tone
  phase_diff_sum,          \* sum of var_phase - ref_phase so far
  mean_phase_diff,
  computed_azimuth_deg

vorVars == <<vor_pc, true_azimuth_deg, vor_i, ref_angle, var_angle, ref_corr, var_corr,
             phase_diff_sum, mean_phase_diff, computed_azimuth_deg>>

VORInit ==
  /\ vor_pc = "samples"
  /\ true_azimuth_deg \in Bearings
  /\ vor_i = 0
  /\ ref_angle = 0 /\ var_angle = 0
  /\ ref_corr = 0 /\ var_corr = 0
  /\ phase_diff_sum = 0
  /\ mean_phase_diff = FZero
  /\ computed_azimuth_deg = FZero

VORIdle ==
  /\ vor_pc = "off"
  /\ true_azimuth_deg = 0
  /\ vor_i = 0
  /\ ref_angle = 0 /\ var_angle = 0
  /\ ref_corr = 0 /\ var_corr = 0
  /\ phase_diff_sum = 0
  /\ mean_phase_diff = FZero
  /\ computed_azimuth_deg = FZero

\* line 42 applied to a mean phase difference given from outside
WrapInit ==
  /\ vor_pc = "mean"
  /\ true_azimuth_deg = 0
  /\ vor_i = 0
  /\ ref_angle = 0 /\ var_angle = 0
  /\ ref_corr = 0 /\ var_corr = 0
  /\ phase_diff_sum = 0
  /\ mean_phase_diff \in MeanPhaseDiffs
  /\ computed_azimuth_deg = FZero

\* lines 20-36 for sample vor_i
VORSample ==
  /\ vor_pc = "samples"
  /\ vor_i < NumSamples
  /\ \E ra \in analytic_angle(signal_arg(vor_i, 0)),
        va \in analytic_angle(signal_arg(vor_i, true_azimuth_deg * (UnitsPerTurn \div 360))) :
       /\ ref_angle' = ra
       /\ var_angle' = va
       /\ ref_corr' = IF vor_i = 0 THEN 0 ELSE ref_corr + unwrap_correction(ref_angle, ra)
       /\ var_corr' = IF vor_i = 0 THEN 0 ELSE var_corr + unwrap_correction(var_angle, va)
       /\ phase_diff_sum' = phase_diff_sum + ((va + var_corr') - (ra + ref_corr'))
  /\ vor_i' = vor_i + 1
  /\ UNCHANGED <<vor_pc, true_azimuth_deg, mean_phase_diff, computed_azimuth_deg>>

\* line 39
VORMean ==
  /\ vor_pc = "samples"
  /\ vor_i = NumSamples
  /\ mean_phase_diff' = mean_radians(phase_diff_sum, NumSamples)
  /\ vor_pc' = "mean"
  /\ UNCHANGED <<true_azimuth_deg, vor_i, ref_angle, var_angle, ref_corr, var_corr,
                 phase_diff_sum, computed_azimuth_deg>>

\* line 42
VORWrap ==
  /\ vor_pc = "mean"
  /\ computed_azimuth_deg' = float_mod(rad2deg(mean_phase_diff), 360)
  /\ vor_pc' = "done"
  /\ UNCHANGED <<true_azimuth_deg, vor_i, ref_angle, var_angle, ref_corr, var_corr,
                 phase_diff_sum, mean_phase_diff>>

VORNext ==
  \/ VORSample
  \/ VORMean
  \/ VORWrap

(***************************************************************************)
(* Specifications.                                                         *)
(***************************************************************************)
vars == <<dmeVars, measVars, gsVars, locVars, vorVars>>

\* DME.py
Init == DMEInit /\ MeasIdle /\ GSIdle /\ LOCIdle /\ VORIdle

Next == DMENext /\ UNCHANGED <<measVars, gsVars, locVars, vorVars>>

Spec == Init /\ [][Next]_vars

\* DME.py with the mouse left alone, its main loop running until the window
\* is closed: an iteration that has started is carried through
LoopNext ==
  \/ Tick
  \/ Quit
  \/ Constrain
  \/ PingCheck
  \/ Draw

LoopStep == LoopNext /\ UNCHANGED <<measVars, gsVars, locVars, vorVars>>

\* the steps that take pc from "ping" to "draw" and from "draw" to "tick" are
\* those of PingCheck and of Draw, which are enabled whenever pc is there
PingCheckDone == pc = "ping" /\ pc' = "draw"

DrawDone == pc = "draw" /\ pc' = "tick"

LoopFairness ==
  /\ WF_vars(Tick /\ UNCHANGED <<measVars, gsVars, locVars, vorVars>>)
  /\ WF_vars(Constrain /\ UNCHANGED <<measVars, gsVars, locVars, vorVars>>)
  /\ WF_pc(PingCheckDone)
  /\ WF_pc(DrawDone)

SpecLoop == Init /\ [][LoopStep]_vars /\ LoopFairness

\* one call of the ranging measurement, for each distance and reply delay
MeasureInit == MeasInit /\ DMEIdle /\ GSIdle /\ LOCIdle /\ VORIdle

MeasureNext == Measure /\ UNCHANGED <<dmeVars, gsVars, locVars, vorVars>>

SpecMeasure == MeasureInit /\ [][MeasureNext]_vars

\* glideslope.py or localizer.py, as configured in the source
ILSInit ==
  /\ DMEIdle /\ MeasIdle /\ VORIdle
  /\ \/ GSInitWith(GS_TRANSITION_SCALE) /\ LOCIdle
     \/ GSIdle /\ LOCInitWith(LOC_TRANSITION_SCALE)

ILSNext ==
  \/ GSNext /\ UNCHANGED <<dmeVars, measVars, locVars, vorVars>>
  \/ LOCNext /\ UNCHANGED <<dmeVars, measVars, gsVars, vorVars>>

SpecILS == ILSInit /\ [][ILSNext]_vars

\* glideslope.py or localizer.py with TRANSITION_SCALE set to another value
ConfigScales == {FromInt(20), FZero, FromInt(-20)}

ConfigInit ==
  /\ DMEIdle /\ MeasIdle /\ VORIdle
  /\ \E scale \in ConfigScales :
       \/ GSInitWith(scale) /\ LOCIdle
       \/ GSIdle /\ LOCInitWith(scale)

SpecConfig == ConfigInit /\ [][ILSNext]_vars

\* VOR.py, for each true azimuth
VORSpecInit == VORInit /\ DMEIdle /\ MeasIdle /\ GSIdle /\ LOCIdle

VORSpecNext == VORNext /\ UNCHANGED <<dmeVars, measVars, gsVars, locVars>>

SpecVOR == VORSpecInit /\ [][VORSpecNext]_vars

\* line 42 of VOR.py, for each mean phase difference
WrapSpecInit == WrapInit /\ DMEIdle /\ MeasIdle /\ GSIdle /\ LOCIdle

WrapSpecNext == VORWrap /\ UNCHANGED <<dmeVars, measVars, gsVars, locVars>>

SpecWrap == WrapSpecInit /\ [][WrapSpecNext]_vars
(***************************************************************************)
(* Claims about DME.py.                                                    *)
(***************************************************************************)
\* k units in the last place of the float x
Ulps(k, x) == Round(k, UlpExp(x), FALSE)

\* C1 as stated: for every distance d >= 0 and every delay P the measurement
\* returns exactly d (so the result does not depend on P).
C1_ExactRecovery == meas_pc = "done" => meas_out = meas_d

\* C1, amended: the measurement returns exactly 0 for d = 0, and otherwise d up
\* to rounding: the recovered round-trip time 2K * result differs from 2K * d
\* by at most 3 units in the last place of the total round-trip time T + P.
C1_RecoveryWithinRounding ==
  meas_pc = "done" =>
    /\ meas_d = FZero => meas_out = FZero
    /\ FLe(FMul(FAbs(FSub(meas_out, meas_d)),
                FMul(FromInt(2), MICROSECS_PER_MILE_ROUNDTRIP)),
           Ulps(3, total_rtt(meas_d, meas_P)))

\* a measurement with the standard 50 us delay whose result is not d
C1_RoundedWitness ==
  /\ meas_pc = "done"
  /\ meas_P = FromInt(50)
  /\ meas_d # FZero
  /\ meas_out # meas_d

\* C2: a tick with now >= next_due performs exactly one measurement and moves
\* next_due forward by exactly one interval, however late it is, so next_due
\* is always interval * (measurements so far + 1), never derived from now.
C2_OneIntervalPerFiring ==
  /\ [][(pc = "ping" /\ current_time >= time_of_next_ping)
          => /\ time_of_next_ping' = time_of_next_ping + PING_INTERVAL
             /\ pings' = pings + 1]_vars
  /\ [](time_of_next_ping = PING_INTERVAL * (pings + 1))

\* a measurement has just fired in a frame that came two or more intervals late
C2_LateFiringWitness ==
  /\ pc = "draw"
  /\ pings >= 1
  /\ last_ping_time = current_time
  /\ current_time >= time_of_next_ping + PING_INTERVAL

\* C3 as stated: with strictly increasing now, after each tick the number of
\* measurements equals the number of whole intervals elapsed.
C3_OncePerElapsedInterval ==
  pc = "draw" => pings = current_time \div PING_INTERVAL

\* C3, amended: the number of measurements never exceeds the number of whole
\* intervals elapsed, and equals it after each tick as long as every tick so
\* far came less than one interval after the previous one.
C3_OncePerIntervalWhenSteady ==
  /\ pings <= current_time \div PING_INTERVAL
  /\ (pc = "draw" /\ steady) => pings = current_time \div PING_INTERVAL

\* two measurements have fired in a run of frames shorter than one interval
C3_SteadyWitness == pc = "draw" /\ steady /\ pings >= 2

\* C4: next_due and last_measured_distance change only in a tick with
\* now >= next_due; a tick that is not due, and the position updates between
\* ticks, leave both unchanged.
C4_SchedulerFrame ==
  [][/\ (\/ time_of_next_ping' # time_of_next_ping
         \/ last_measured_distance' # last_measured_distance)
        => (pc = "ping" /\ current_time >= time_of_next_ping)
     /\ (pc = "ping" /\ current_time < time_of_next_ping)
        => UNCHANGED <<time_of_next_ping, last_measured_distance, pings>>]_vars

\* the plane was dragged and a tick that was not due has run, before any ping
C4_MovedNotDueWitness ==
  /\ pc = "draw"
  /\ pings = 0
  /\ plane_x # 200
  /\ current_time < time_of_next_ping
  /\ last_measured_distance = FZero


(***************************************************************************)
(* Claims about the lobe strengths and the deviation of glideslope.py and  *)
(* localizer.py.                                                           *)
(***************************************************************************)

\* C5: whenever a frame was drawn with the plane's centre exactly on the
\* reference line (dist = 0), the deviation s90 - s150 of that frame is
\* exactly 0, in the glideslope and in the localizer.
C5_CentrelineZero ==
  /\ (gs_frames >= 1 /\ gs_dist = FZero) => gs_diff = FZero
  /\ (loc_frames >= 1 /\ loc_dist = FZero) => loc_diff = FZero

\* the plane was dragged onto the runway end of the middle line and a frame drawn
C5_OnLineWitness ==
  /\ gs_frames >= 1 /\ gs_pc = "events"
  /\ gs_plane_x = GS_RUNWAY_X - PLANE_SIZE \div 2
  /\ gs_dist = FZero /\ gs_diff = FZero
  /\ gs_prev_dist # FZero /\ gs_prev_diff # FZero

\* C6: in every frame the two lobe strengths add up to 1, and on the
\* reference line (dist = 0) both are 0.5.
C6_LobesComplementary ==
  /\ gs_frames >= 1 =>
       /\ FAdd(gs_s90, gs_s150) = FOne
       /\ gs_dist = FZero => (gs_s90 = FHalf /\ gs_s150 = FHalf)
  /\ loc_frames >= 1 =>
       /\ FAdd(loc_s90, loc_s150) = FOne
       /\ loc_dist = FZero => (loc_s90 = FHalf /\ loc_s150 = FHalf)

\* a frame off the line where neither lobe has saturated
C6_OffCentreWitness ==
  /\ gs_frames >= 1
  /\ gs_dist # FZero
  /\ FLt(FZero, gs_s90) /\ FLt(gs_s90, gs_s150) /\ FLt(gs_s150, FOne)
  /\ FAdd(gs_s90, gs_s150) = FOne

\* the frame before and the frame now, ordered by signed offset
GSOffsetGrew == gs_frames = 2 /\ FLt(gs_prev_dist, gs_dist)

LOCOffsetGrew == loc_frames = 2 /\ FLt(loc_prev_dist, loc_dist)

\* both frames on one side of the line, the frame now farther from it
GSFarther ==
  /\ gs_frames = 2
  /\ FSign(gs_prev_dist) * FSign(gs_dist) >= 0
  /\ FLt(FAbs(gs_prev_dist), FAbs(gs_dist))

LOCFarther ==
  /\ loc_frames = 2
  /\ FSign(loc_prev_dist) * FSign(loc_dist) >= 0
  /\ FLt(FAbs(loc_prev_dist), FAbs(loc_dist))

\* C7 as stated: the deviation is monotonic in the signed offset, its
\* magnitude strictly increases with |offset| and stays strictly below 1, and
\* the clamped value that drives the dial is within [-1, +1].
C7_StrictlyBelowOne ==
  /\ GSOffsetGrew => FLe(gs_diff, gs_prev_diff)
  /\ LOCOffsetGrew => FLe(loc_diff, loc_prev_diff)
  /\ GSFarther => FLt(FAbs(gs_prev_diff), FAbs(gs_diff))
  /\ LOCFarther => FLt(FAbs(loc_prev_diff), FAbs(loc_diff))
  /\ gs_frames >= 1 => FLt(FAbs(gs_diff), FOne)
  /\ loc_frames >= 1 => FLt(FAbs(loc_diff), FOne)
  /\ gs_frames >= 1 => (FLe(FNeg(FOne), gs_d) /\ FLe(gs_d, FOne))
  /\ loc_frames >= 1 => (FLe(FNeg(FOne), loc_d) /\ FLe(loc_d, FOne))

\* C7: the deviation never increases when the signed offset grows, its
\* magnitude never decreases when the plane moves farther from the line on one
\* side and is at most 1 (it is exactly 1 once tanh has rounded to 1), and the
\* clamped value that drives the dial equals the deviation and is within
\* [-1, +1].
C7_MonotoneSaturating ==
  /\ GSOffsetGrew => FLe(gs_diff, gs_prev_diff)
  /\ LOCOffsetGrew => FLe(loc_diff, loc_prev_diff)
  /\ GSFarther => FLe(FAbs(gs_prev_diff), FAbs(gs_diff))
  /\ LOCFarther => FLe(FAbs(loc_prev_diff), FAbs(loc_diff))
  /\ gs_frames >= 1 => FLe(FAbs(gs_diff), FOne)
  /\ loc_frames >= 1 => FLe(FAbs(loc_diff), FOne)
  /\ gs_frames >= 1 => (gs_d = gs_diff /\ FLe(FNeg(FOne), gs_d) /\ FLe(gs_d, FOne))
  /\ loc_frames >= 1 => (loc_d = loc_diff /\ FLe(FNeg(FOne), loc_d) /\ FLe(loc_d, FOne))

\* two frames on one side of the glide path, the second farther out, both
\* with the deviation saturated at exactly 1
C7_SaturatedWitness ==
  /\ GSFarther
  /\ gs_prev_diff = FOne /\ gs_diff = FOne /\ gs_d = FOne

(***************************************************************************)
(* Claim about a malformed TRANSITION_SCALE.                               *)
(***************************************************************************)

\* C10 as stated: with a TRANSITION_SCALE that is zero or negative no frame
\* ever evaluates the lobe strengths and no division by zero is raised: the
\* configuration is refused before the main loop.
C10_MalformedRejected ==
  /\ gs_pc # "ZeroDivisionError" /\ loc_pc # "ZeroDivisionError"
  /\ gs_frames >= 1 => FLt(FZero, gs_scale)
  /\ loc_frames >= 1 => FLt(FZero, loc_scale)

(***************************************************************************)
(* Claims about VOR.py.                                                    *)
(***************************************************************************)

\* the distance between two bearings in degrees, around the circle, is at most 1
WithinOneDegree(a, b) ==
  LET e == FAbs(FSub(a, b))
  IN  FLe(e, FOne) \/ FLe(FromInt(359), e)

C9_AzimuthInHalfOpenRange ==
  vor_pc = "done" =>
    (FLe(FZero, computed_azimuth_deg) /\ FLt(computed_azimuth_deg, FromInt(360)))

(***************************************************************************)
(* Claims about the side of the line and the dial needle.                  *)
(***************************************************************************)

\* C11: in every frame the deviation is > 0 exactly when the plane's centre
\* is above the middle line (dist < 0, glideslope) or left of the centre line
\* (dist < 0, localizer) and < 0 exactly when it is below or right; the 90 Hz
\* lobe is the larger one above / left, the 150 Hz lobe below / right.
C11_SignIdentifiesSide ==
  /\ gs_frames >= 1 =>
       /\ FLt(FZero, gs_diff) <=> FLt(gs_dist, FZero)
       /\ FLt(gs_diff, FZero) <=> FLt(FZero, gs_dist)
       /\ FLt(gs_dist, FZero) => FLt(gs_s150, gs_s90)
       /\ FLt(FZero, gs_dist) => FLt(gs_s90, gs_s150)
  /\ loc_frames >= 1 =>
       /\ FLt(FZero, loc_diff) <=> FLt(loc_dist, FZero)
       /\ FLt(loc_diff, FZero) <=> FLt(FZero, loc_dist)
       /\ FLt(loc_dist, FZero) => FLt(loc_s150, loc_s90)
       /\ FLt(FZero, loc_dist) => FLt(loc_s90, loc_s150)

\* the localizer plane seen right of the centre line in one frame and left of
\* it in the next
C11_BothSidesWitness ==
  /\ loc_frames = 2
  /\ FLt(FZero, loc_prev_dist) /\ FLt(loc_prev_diff, FZero)
  /\ FLt(loc_dist, FZero) /\ FLt(FZero, loc_diff)
  /\ FLt(loc_s150, loc_s90)

\* C12 as stated: in every glideslope frame with the plane above the glide
\* path (diff > 0) the needle is drawn below the dial centre (ny greater than
\* DIAL_CENTER_Y), with the plane below (diff < 0) it is drawn above the
\* centre, and the needle is never more than needle_max from the centre.
C12_NeedleDownWhenAbove ==
  gs_frames >= 1 =>
    /\ FLt(FZero, gs_diff) => FLt(FromInt(GS_DIAL_CENTER_Y), gs_ny)
    /\ FLt(gs_diff, FZero) => FLt(gs_ny, FromInt(GS_DIAL_CENTER_Y))
    /\ FLe(FAbs(FSub(gs_ny, FromInt(GS_DIAL_CENTER_Y))), FromInt(GS_needle_max))

(***************************************************************************)
(* Claims about the frames of DME.py in which a ping fires.                *)
(***************************************************************************)

\* a frame has been drawn in which a measurement fired
PingFrameDrawn == pc = "tick" /\ pings >= 1 /\ last_ping_time = current_time

\* C14 as stated: at the end of a frame in which a ping fired, the stored
\* last measured distance is the actual distance shown for that frame (equal
\* up to the rounding of the measurement's add and subtract of the delay).
C14_MeasuredIsActual ==
  PingFrameDrawn =>
    FLe(FMul(FAbs(FSub(last_measured_distance, actual_dist)),
             FMul(FromInt(2), MICROSECS_PER_MILE_ROUNDTRIP)),
        Ulps(3, total_rtt(actual_dist, DME_REPLY_DELAY_US)))

\* the ping check of a frame that follows a frame which ended with the next
\* ping already due (the countdown shown by that frame was 0)
BacklogCarried == pc = "ping" /\ pings >= 1 /\ time_to_ping = 0

=============================================================================
